---- MODULE Spec2Model ----
(***************************************************************************)
(* Loan amortization and payment application of provenance-loan-demo:      *)
(* the Express route handlers that create a loan with its payment          *)
(* schedule (the loans router), process a payment with prepayment and      *)
(* re-amortization (routes/payments.ts), and the handlers that write the   *)
(* same rows from elsewhere (PATCH /loans/:id, PATCH /payments/:id,        *)
(* POST /blockchain/process-payment).                                      *)
(*                                                                         *)
(* Money.  The handlers compute in IEEE doubles.  The model computes in    *)
(* integer micro-units (1 = 0.000001 currency units), every product and    *)
(* quotient rounded down to a micro-unit, so that the two tolerances of    *)
(* the code, 1e-6 and 0.01, are both whole numbers of units.  Rounding     *)
(* below one micro-unit is not modelled.                                   *)
(*                                                                         *)
(* Dates are day numbers in a 365-day calendar; Date.setMonth is modelled  *)
(* with its day-of-month overflow (31 Jan + 1 month = 3 Mar).              *)
(***************************************************************************)
EXTENDS Integers, Sequences, FiniteSets, TLC

VARIABLES loans, payments, auditLog, response, locals, patches, inflight

vars == <<loans, payments, auditLog, response, locals, patches, inflight>>

Null == "null"

(***************************************************************************)
(* Units and the program's numeric constants.                              *)
(***************************************************************************)
Micro == 1000000

\* payments.ts:197  amount + 1e-6 < nextAmountDue
Tolerance == 1

\* payments.ts:280 and :298  remainingBalance <= 0.01
PayoffEpsilon == 10000

\* payments.ts:12  amount: Joi.number().min(0.01)
MinPaymentAmount == 10000

\* createLoanSchema  loanAmount: Joi.number().min(1000)
MinLoanAmount == 1000 * Micro

\* payments.ts:291  30 * 24 * 60 * 60 * 1000 ms
BalloonDays == 30

(***************************************************************************)
(* Bounds of the model.                                                    *)
(***************************************************************************)
MaxLoans == 1
MaxTerm == 3
MaxPayments == 3
MaxPatches == 2
\* the loans and the concurrent POST /payments requests of the step-wise model
StepLoans == 2
MaxRequests == 2
\* payments are tried while the principal recorded as paid on the loan stays
\* within twice the loan amount (sums stay below 2^31 micro-units)
MaxPaidPrincipal == 2 * 1000 * Micro

LoanAmounts == {MinLoanAmount}
InterestRates == {12}
LoanTerms == 1..MaxTerm
\* creation dates as <<month index, day of month>>: 31 Jan
StartDates == {<<0, 31>>}
PaymentMethods == {"ach"}
References == {Null}
NotesChoices == {Null}
\* amounts of excess and of shortfall tried against the amount due
ExtraChoices == {100 * Micro, 250 * Micro}
ShortfallChoices == {Tolerance, PayoffEpsilon}

LoanStatuses == {"pending", "approved", "active", "completed", "defaulted", "cancelled"}
PaymentStatuses == {"paid", "scheduled", "pending", "overdue", "cancelled"}
\* the statuses PATCH /payments/:id is tried with
UpdateStatuses == {"scheduled"}

(***************************************************************************)
(* Arithmetic.                                                             *)
(***************************************************************************)
Max(a, b) == IF a >= b THEN a ELSE b

RECURSIVE GCD(_, _)
GCD(a, b) == IF b = 0 THEN a ELSE GCD(b, a % b)

RECURSIVE Pow(_, _)
Pow(b, e) == IF e = 0 THEN 1 ELSE b * Pow(b, e - 1)

\* <<q, r>> with a * b = q * c + r and 0 <= r < c, for a, b >= 0 and
\* 0 < c, computed by doubling so that no intermediate exceeds 3 * c.
RECURSIVE MulDivRem(_, _, _)
MulDivRem(a, b, c) ==
  IF b = 0 THEN <<0, 0>>
  ELSE LET h == MulDivRem(a, b \div 2, c)
           odd == b % 2
           r == 2 * h[2] + odd * (a % c)
       IN <<2 * h[1] + odd * (a \div c) + (r \div c), r % c>>

\* a * b / c rounded towards zero
MulDiv(a, b, c) ==
  IF a < 0 THEN 0 - MulDivRem(0 - a, b, c)[1] ELSE MulDivRem(a, b, c)[1]

\* monthlyRate = interestRate / 100 / 12, as a reduced fraction
RateNum(interestRate) == interestRate \div GCD(interestRate, 1200)
RateDen(interestRate) == 1200 \div GCD(interestRate, 1200)

\* x * monthlyRate
TimesRate(x, interestRate) == MulDiv(x, RateNum(interestRate), RateDen(interestRate))

\* (p * r * (1+r)^n) / ((1+r)^n - 1)
Annuity(p, interestRate, n) ==
  LET num == RateNum(interestRate)
      den == RateDen(interestRate)
      up == Pow(den + num, n)
  IN MulDiv(p, num * up, den * (up - Pow(den, n)))

(***************************************************************************)
(* Dates.                                                                  *)
(***************************************************************************)
DaysBeforeMonth == <<0, 31, 59, 90, 120, 151, 181, 212, 243, 273, 304, 334>>

\* new Date(year, month, day) as a day number; month and day may overflow
DayNumber(month, day) == 365 * (month \div 12) + DaysBeforeMonth[(month % 12) + 1] + day

\* d = new Date(); d.setMonth(d.getMonth() + k)
SetMonth(start, k) == DayNumber(start[1] + k, start[2])

(***************************************************************************)
(* Rows and queries.                                                       *)
(***************************************************************************)
NoLocals ==
  [loanId |-> 0, nextPayment |-> 0, nextAmountDue |-> 0, amount |-> 0,
   extraPrincipal |-> 0, principalPaidSoFar |-> 0, remainingBalance |-> 0,
   remainingTerm |-> 0, branch |-> "none"]

Reply(op, status, code, loanId, paymentId, amountDue) ==
  [op |-> op, status |-> status, code |-> code, loanId |-> loanId,
   paymentId |-> paymentId, amountDue |-> amountDue]

\* the query without its where clause
PaymentsOfAnyLoan(rows, loanId) == DOMAIN rows

\* prisma.payment.findMany({ where: { loanId } })
PaymentsOf(rows, loanId) == {i \in DOMAIN rows : rows[i].loanId = loanId}

ScheduledOf(rows, loanId) == {i \in PaymentsOf(rows, loanId) : rows[i].status = "scheduled"}

\* the query ordered by dueDate descending
NextPaymentCandidatesDesc(rows, loanId) ==
  {i \in ScheduledOf(rows, loanId) :
     \A j \in ScheduledOf(rows, loanId) : rows[i].dueDate >= rows[j].dueDate}

\* prisma.payment.findFirst({ where: { loanId, status: 'scheduled' }, orderBy: { dueDate: 'asc' } })
\* the rows the query may return: a scheduled row of the earliest due date
NextPaymentCandidates(rows, loanId) ==
  {i \in ScheduledOf(rows, loanId) :
     \A j \in ScheduledOf(rows, loanId) : rows[i].dueDate <= rows[j].dueDate}

RECURSIVE SumPrincipal(_, _)
SumPrincipal(rows, ids) ==
  IF ids = {} THEN 0
  ELSE LET i == CHOOSE j \in ids : TRUE
       IN rows[i].principal + SumPrincipal(rows, ids \ {i})

\* allPayments.filter(p => p.status === 'paid').reduce((sum, p) => sum + Number(p.principal), 0)
PrincipalPaid(rows, loanId) ==
  SumPrincipal(rows, {i \in PaymentsOf(rows, loanId) : rows[i].status = "paid"})

\* ids in ascending dueDate, rows of equal dueDate in insertion order
RECURSIVE SortByDueDate(_, _)
SortByDueDate(rows, ids) ==
  IF ids = {} THEN <<>>
  ELSE LET first == CHOOSE i \in ids : \A j \in ids :
                       \/ rows[i].dueDate < rows[j].dueDate
                       \/ rows[i].dueDate = rows[j].dueDate /\ i <= j
       IN <<first>> \o SortByDueDate(rows, ids \ {first})

\* allPayments.filter(p => p.status === 'scheduled' && p.dueDate > paidNextPayment.dueDate).sort(...)
ScheduledRemaining(rows, loanId, paidDueDate) ==
  SortByDueDate(rows, {i \in ScheduledOf(rows, loanId) : rows[i].dueDate > paidDueDate})

(***************************************************************************)
(* POST /loans: the loan and its payment schedule.                         *)
(***************************************************************************)
\* the loop body with the due date counted from the creation month
ScheduleRowFromStart(loanId, loanAmount, interestRate, monthlyPayment, start, i) ==
  LET remainingBalance == loanAmount - (monthlyPayment * i)
      interestPayment == TimesRate(remainingBalance, interestRate)
      principalPayment == monthlyPayment - interestPayment
  IN [loanId |-> loanId, amount |-> monthlyPayment, principal |-> principalPayment,
      interest |-> interestPayment, fees |-> 0, dueDate |-> SetMonth(start, i),
      status |-> "scheduled", paidDate |-> Null, paymentMethod |-> Null,
      reference |-> Null, notes |-> Null]

\* the i-th row of the schedule (loop body, i from 0)
ScheduleRow(loanId, loanAmount, interestRate, monthlyPayment, start, i) ==
  LET remainingBalance == loanAmount - (monthlyPayment * i)
      interestPayment == TimesRate(remainingBalance, interestRate)
      principalPayment == monthlyPayment - interestPayment
  IN [loanId |-> loanId, amount |-> monthlyPayment, principal |-> principalPayment,
      interest |-> interestPayment, fees |-> 0, dueDate |-> SetMonth(start, i + 1),
      status |-> "scheduled", paidDate |-> Null, paymentMethod |-> Null,
      reference |-> Null, notes |-> Null]

GenerateSchedule(loanId, loanAmount, interestRate, loanTerm, monthlyPayment, start) ==
  [i \in 1..loanTerm |->
     ScheduleRow(loanId, loanAmount, interestRate, monthlyPayment, start, i - 1)]

\* createLoanSchema: loanAmount min(1000).max(10000000), interestRate
\* min(0.1).max(30), loanTerm min(1).max(480); rates are whole percents here
ValidLoan(loanAmount, interestRate, loanTerm) ==
  /\ loanAmount >= MinLoanAmount
  /\ loanAmount \div Micro <= 10000000
  /\ interestRate >= 1
  /\ interestRate <= 30
  /\ loanTerm >= 1
  /\ loanTerm <= 480

CreateLoan(loanAmount, interestRate, loanTerm, start) ==
  /\ Len(loans) < MaxLoans
  /\ IF ~ValidLoan(loanAmount, interestRate, loanTerm)
     THEN /\ response' = Reply("createLoan", 400, "VALIDATION_ERROR", 0, 0, 0)
          /\ UNCHANGED <<loans, payments>>
     ELSE LET id == Len(loans) + 1
              monthlyPayment == Annuity(loanAmount, interestRate, loanTerm)
          IN /\ loans' = Append(loans,
                            [loanAmount |-> loanAmount, interestRate |-> interestRate,
                             loanTerm |-> loanTerm, monthlyPayment |-> monthlyPayment,
                             status |-> "pending"])
             /\ payments' = payments \o
                  GenerateSchedule(id, loanAmount, interestRate, loanTerm, monthlyPayment, start)
             /\ response' = Reply("createLoan", 201, "OK", id, 0, 0)
  /\ UNCHANGED <<auditLog, locals, patches>>

(***************************************************************************)
(* PATCH /loans/:id                                                        *)
(***************************************************************************)
UpdateLoan(id, status) ==
  /\ id \in DOMAIN loans
  /\ loans' = [loans EXCEPT ![id].status = status]
  /\ response' = Reply("updateLoan", 200, "OK", id, 0, 0)
  /\ UNCHANGED <<payments, auditLog, locals, patches>>

(***************************************************************************)
(* POST /payments                                                          *)
(***************************************************************************)
\* marking a row paid while booking its whole amount as principal
MarkPaidAllPrincipal(row, paymentMethod, reference, notes) ==
  [row EXCEPT !.status = "paid", !.paidDate = "now", !.paymentMethod = paymentMethod,
              !.principal = row.amount, !.interest = 0,
              !.reference = IF reference = Null THEN @ ELSE reference,
              !.notes = IF notes = Null THEN @ ELSE notes]

\* prisma.payment.update({ where: { id }, data: { status: 'paid', paidDate, paymentMethod, reference, notes } })
\* (an undefined reference or notes leaves the column as it is)
MarkPaid(row, paymentMethod, reference, notes) ==
  [row EXCEPT !.status = "paid", !.paidDate = "now", !.paymentMethod = paymentMethod,
              !.reference = IF reference = Null THEN @ ELSE reference,
              !.notes = IF notes = Null THEN @ ELSE notes]

\* the principal reduction recorded as interest
PrepaymentRowAsInterest(loanId, extraPrincipal, dueDate, paymentMethod, reference, notes) ==
  [loanId |-> loanId, amount |-> extraPrincipal, principal |-> 0,
   interest |-> extraPrincipal, fees |-> 0, dueDate |-> dueDate, status |-> "paid",
   paidDate |-> "now", paymentMethod |-> paymentMethod,
   reference |-> IF reference = Null THEN "PRINCIPAL_PREPAYMENT" ELSE reference,
   notes |-> IF notes = Null THEN "Principal reduction" ELSE "notes (Principal reduction)"]

\* the principal reduction recorded as a row that is still to be paid
PrepaymentRowScheduled(loanId, extraPrincipal, dueDate, paymentMethod, reference, notes) ==
  [loanId |-> loanId, amount |-> extraPrincipal, principal |-> extraPrincipal,
   interest |-> 0, fees |-> 0, dueDate |-> dueDate, status |-> "scheduled",
   paidDate |-> "now", paymentMethod |-> paymentMethod,
   reference |-> IF reference = Null THEN "PRINCIPAL_PREPAYMENT" ELSE reference,
   notes |-> IF notes = Null THEN "Principal reduction" ELSE "notes (Principal reduction)"]

\* the row that records the principal reduction
PrepaymentRow(loanId, extraPrincipal, dueDate, paymentMethod, reference, notes) ==
  [loanId |-> loanId, amount |-> extraPrincipal, principal |-> extraPrincipal,
   interest |-> 0, fees |-> 0, dueDate |-> dueDate, status |-> "paid",
   paidDate |-> "now", paymentMethod |-> paymentMethod,
   reference |-> IF reference = Null THEN "PRINCIPAL_PREPAYMENT" ELSE reference,
   notes |-> IF notes = Null THEN "Principal reduction" ELSE "notes (Principal reduction)"]

\* the single final payment created when no scheduled payment remains
BalloonRow(loanId, remainingBalance, paidDueDate) ==
  [loanId |-> loanId, amount |-> remainingBalance, principal |-> remainingBalance,
   interest |-> 0, fees |-> 0, dueDate |-> paidDueDate + BalloonDays,
   status |-> "scheduled", paidDate |-> Null, paymentMethod |-> Null,
   reference |-> Null, notes |-> Null]

\* Current balance after applying extra principal
RemainingBalance(originalPrincipal, principalPaidSoFar, extraPrincipal) ==
  originalPrincipal - principalPaidSoFar - extraPrincipal

\* prisma.payment.updateMany({ where: { id: { in: ids } }, data: { status: 'cancelled' } })
CancelAll(rows, ids) ==
  [i \in DOMAIN rows |->
     IF \E k \in DOMAIN ids : ids[k] = i THEN [rows[i] EXCEPT !.status = "cancelled"]
     ELSE rows[i]]

NewMonthly(remainingBalance, interestRate, remainingTerm) ==
  IF interestRate = 0 THEN remainingBalance \div remainingTerm
  ELSE Annuity(remainingBalance, interestRate, remainingTerm)

\* the loop without the special case of the last installment: every row is
\* given amount = newMonthly
RECURSIVE ReamortizeFlat(_, _, _, _, _, _)
ReamortizeFlat(rows, scheduledRemaining, i, balanceCursor, newMonthly, interestRate) ==
  IF i > Len(scheduledRemaining) THEN rows
  ELSE LET last == (i = Len(scheduledRemaining))
           interestPortion == IF interestRate = 0 THEN 0
                              ELSE TimesRate(balanceCursor, interestRate)
           principalPortion == IF last THEN Max(0, balanceCursor)
                               ELSE newMonthly - interestPortion
           id == scheduledRemaining[i]
           updated == [rows EXCEPT ![id].amount = newMonthly,
                                   ![id].principal = principalPortion,
                                   ![id].interest = interestPortion]
       IN ReamortizeFlat(updated, scheduledRemaining, i + 1,
                         Max(0, balanceCursor - principalPortion), newMonthly, interestRate)

\* the re-amortization loop from index i of scheduledRemaining on
RECURSIVE Reamortize(_, _, _, _, _, _)
Reamortize(rows, scheduledRemaining, i, balanceCursor, newMonthly, interestRate) ==
  IF i > Len(scheduledRemaining) THEN rows
  ELSE LET last == (i = Len(scheduledRemaining))
           interestPortion == IF interestRate = 0 THEN 0
                              ELSE TimesRate(balanceCursor, interestRate)
           principalPortion == IF last THEN Max(0, balanceCursor)
                               ELSE newMonthly - interestPortion
           amountThis == IF last THEN principalPortion + interestPortion ELSE newMonthly
           id == scheduledRemaining[i]
           updated == [rows EXCEPT ![id].amount = amountThis,
                                   ![id].principal = principalPortion,
                                   ![id].interest = interestPortion]
       IN Reamortize(updated, scheduledRemaining, i + 1,
                     Max(0, balanceCursor - principalPortion), newMonthly, interestRate)

\* the audit record without the excess
AuditEntryNoExcess(resourceId, amount, paymentMethod, reference, extraPrincipalApplied) ==
  [action |-> "PAYMENT_PROCESSED", resource |-> "payment", resourceId |-> resourceId,
   amount |-> amount, paymentMethod |-> paymentMethod, reference |-> reference,
   extraPrincipalApplied |-> 0]

AuditEntry(resourceId, amount, paymentMethod, reference, extraPrincipalApplied) ==
  [action |-> "PAYMENT_PROCESSED", resource |-> "payment", resourceId |-> resourceId,
   amount |-> amount, paymentMethod |-> paymentMethod, reference |-> reference,
   extraPrincipalApplied |-> extraPrincipalApplied]

\* steps 1) and 2) of the handler, once its checks have passed
ApplyPayment(loanId, nextPayment, amount, paymentMethod, reference, notes) ==
  LET loan == loans[loanId]
      nextAmountDue == payments[nextPayment].amount
      paidRows == [payments EXCEPT ![nextPayment] = MarkPaid(@, paymentMethod, reference, notes)]
      paidDueDate == paidRows[nextPayment].dueDate
      extraPrincipal == amount - nextAmountDue
      withPrepayment == Append(paidRows,
          PrepaymentRow(loanId, extraPrincipal, paidDueDate, paymentMethod, reference, notes))
      principalPaidSoFar == PrincipalPaid(withPrepayment, loanId)
      remainingBalance == RemainingBalance(loan.loanAmount, principalPaidSoFar, extraPrincipal)
      scheduledRemaining == ScheduledRemaining(withPrepayment, loanId, paidDueDate)
      remainingTerm == Len(scheduledRemaining)
      newMonthly == NewMonthly(remainingBalance, loan.interestRate, remainingTerm)
      branch == IF extraPrincipal <= 0 THEN "none"
                ELSE IF remainingTerm = 0
                     THEN IF remainingBalance <= PayoffEpsilon THEN "complete" ELSE "balloon"
                     ELSE IF remainingBalance <= PayoffEpsilon THEN "payoff" ELSE "reamortize"
  IN /\ auditLog' = Append(auditLog,
           AuditEntry(nextPayment, amount, paymentMethod, reference, Max(0, extraPrincipal)))
     /\ payments' = CASE branch = "none" -> paidRows
                      [] branch = "complete" -> withPrepayment
                      [] branch = "balloon" ->
                           Append(withPrepayment, BalloonRow(loanId, remainingBalance, paidDueDate))
                      [] branch = "payoff" -> CancelAll(withPrepayment, scheduledRemaining)
                      [] branch = "reamortize" ->
                           Reamortize(withPrepayment, scheduledRemaining, 1, remainingBalance,
                                      newMonthly, loan.interestRate)
     /\ loans' = CASE branch = "complete" -> [loans EXCEPT ![loanId].status = "completed"]
                   [] branch = "payoff" -> [loans EXCEPT ![loanId].status = "completed",
                                                         ![loanId].monthlyPayment = 0]
                   [] branch = "reamortize" -> [loans EXCEPT ![loanId].monthlyPayment = newMonthly]
                   [] OTHER -> loans
     /\ locals' = [loanId |-> loanId, nextPayment |-> nextPayment,
                   nextAmountDue |-> nextAmountDue, amount |-> amount,
                   extraPrincipal |-> extraPrincipal,
                   principalPaidSoFar |-> IF branch = "none" THEN 0 ELSE principalPaidSoFar,
                   remainingBalance |-> IF branch = "none" THEN 0 ELSE remainingBalance,
                   remainingTerm |-> IF branch = "none" THEN 0 ELSE remainingTerm,
                   branch |-> branch]
     /\ response' = Reply("processPayment", 200, "OK", loanId, nextPayment, 0)

\* the comparison with the payoff epsilon in the place of the tolerance
InsufficientWithinCent(amount, nextAmountDue) == amount + PayoffEpsilon < nextAmountDue

\* amount + 1e-6 < nextAmountDue
Insufficient(amount, nextAmountDue) == amount + Tolerance < nextAmountDue

\* if (!['active', 'approved'].includes(loan.status))
AcceptsPayments(status) == status \in {"active", "approved"}

\* a rejection that is logged as if the payment had been processed
RejectWithAudit(status, code, loanId, amountDue) ==
  /\ response' = Reply("processPayment", status, code, loanId, 0, amountDue)
  /\ auditLog' = Append(auditLog, AuditEntry(0, amountDue, Null, Null, 0))
  /\ UNCHANGED <<loans, payments, locals>>

Reject(status, code, loanId, amountDue) ==
  /\ response' = Reply("processPayment", status, code, loanId, 0, amountDue)
  /\ UNCHANGED <<loans, payments, auditLog, locals>>

\* the principal that would be recorded as paid stays within the model's range
WithinRange(loanId, amount) ==
  \/ loanId \notin DOMAIN loans
  \/ \A i \in NextPaymentCandidates(payments, loanId) :
       payments[i].principal + Max(0, amount - payments[i].amount)
         <= MaxPaidPrincipal - PrincipalPaid(payments, loanId)

\* the handler with the scheduled-payment lookup ahead of the status check
ProcessPaymentScheduledFirst(loanId, amount, paymentMethod, reference, notes) ==
  /\ Len(auditLog) < MaxPayments
  /\ WithinRange(loanId, amount)
  /\ UNCHANGED patches
  /\ IF amount < MinPaymentAmount
     THEN Reject(400, "VALIDATION_ERROR", loanId, 0)
     ELSE IF loanId \notin DOMAIN loans
     THEN Reject(404, "LOAN_NOT_FOUND", loanId, 0)
     ELSE IF NextPaymentCandidates(payments, loanId) = {}
     THEN Reject(400, "NO_SCHEDULED_PAYMENTS", loanId, 0)
     ELSE IF ~AcceptsPayments(loans[loanId].status)
     THEN Reject(400, "INVALID_LOAN_STATUS", loanId, 0)
     ELSE \E nextPayment \in NextPaymentCandidates(payments, loanId) :
            IF Insufficient(amount, payments[nextPayment].amount)
            THEN Reject(400, "INSUFFICIENT_PAYMENT", loanId, payments[nextPayment].amount)
            ELSE ApplyPayment(loanId, nextPayment, amount, paymentMethod, reference, notes)

ProcessPayment(loanId, amount, paymentMethod, reference, notes) ==
  /\ Len(auditLog) < MaxPayments
  /\ WithinRange(loanId, amount)
  /\ UNCHANGED patches
  /\ IF amount < MinPaymentAmount
     THEN Reject(400, "VALIDATION_ERROR", loanId, 0)
     ELSE IF loanId \notin DOMAIN loans
     THEN Reject(404, "LOAN_NOT_FOUND", loanId, 0)
     ELSE IF ~AcceptsPayments(loans[loanId].status)
     THEN Reject(400, "INVALID_LOAN_STATUS", loanId, 0)
     ELSE IF NextPaymentCandidates(payments, loanId) = {}
     THEN Reject(400, "NO_SCHEDULED_PAYMENTS", loanId, 0)
     ELSE \E nextPayment \in NextPaymentCandidates(payments, loanId) :
            IF Insufficient(amount, payments[nextPayment].amount)
            THEN Reject(400, "INSUFFICIENT_PAYMENT", loanId, payments[nextPayment].amount)
            ELSE ApplyPayment(loanId, nextPayment, amount, paymentMethod, reference, notes)

(***************************************************************************)
(* PATCH /payments/:id and POST /blockchain/process-payment                *)
(***************************************************************************)
\* prisma.payment.update({ where: { id }, data: value }) with value = { status }
UpdatePayment(id, status) ==
  /\ patches < MaxPatches
  /\ id \in DOMAIN payments
  /\ payments' = [payments EXCEPT ![id].status = status]
  /\ patches' = patches + 1
  /\ response' = Reply("updatePayment", 200, "OK", payments[id].loanId, id, 0)
  /\ UNCHANGED <<loans, auditLog, locals>>

BlockchainProcessPayment(loanId, paymentId) ==
  /\ patches < MaxPatches
  /\ paymentId \in DOMAIN payments
  /\ \/ payments[paymentId].status = "paid"
     \/ payments[paymentId].principal
          <= MaxPaidPrincipal - PrincipalPaid(payments, payments[paymentId].loanId)
  /\ patches' = patches + 1
  /\ IF payments[paymentId].loanId # loanId
     THEN /\ response' = Reply("blockchainProcessPayment", 400, "INVALID_PAYMENT", loanId, paymentId, 0)
          /\ UNCHANGED payments
     ELSE /\ payments' = [payments EXCEPT ![paymentId].status = "paid",
                                          ![paymentId].paidDate = "now"]
          /\ response' = Reply("blockchainProcessPayment", 200, "OK", loanId, paymentId, 0)
  /\ UNCHANGED <<loans, auditLog, locals>>

(***************************************************************************)
(* The system.                                                             *)
(***************************************************************************)
\* the balance left once the matched payment is paid, when positive: the
\* excess that pays the loan off
PayoffExtras(loanId, nextPayment) ==
  LET balance == loans[loanId].loanAmount - PrincipalPaid(payments, loanId)
                   - payments[nextPayment].principal
  IN IF balance > 0 THEN {balance} ELSE {}

\* the request amounts tried on a loan: around the amount due of the
\* payment that would be matched, the schema's minimum, and one below it
AmountInputs(loanId) ==
  LET next == IF loanId \in DOMAIN loans THEN NextPaymentCandidates(payments, loanId) ELSE {}
  IN {0, MinPaymentAmount}
     \cup {payments[i].amount : i \in next}
     \cup {payments[i].amount - s : i \in next, s \in ShortfallChoices}
     \cup {payments[i].amount + e : i \in next, e \in ExtraChoices}
     \cup UNION {{payments[i].amount + e : e \in PayoffExtras(loanId, i)} : i \in next}

\* a POST /payments request that has not been received yet
IdleRequest ==
  [pc |-> "idle", loanId |-> 0, amount |-> 0, nextPayment |-> 0, nextAmountDue |-> 0,
   paidDueDate |-> 0, remainingBalance |-> 0, scheduledRemaining |-> <<>>,
   newMonthly |-> 0, i |-> 0, balanceCursor |-> 0, code |-> "none"]

Init ==
  /\ loans = <<>>
  /\ payments = <<>>
  /\ auditLog = <<>>
  /\ response = Reply("none", 0, "OK", 0, 0, 0)
  /\ locals = NoLocals
  /\ patches = 0
  /\ inflight = [q \in 1..MaxRequests |-> IdleRequest]

\* every handler runs from its request to its response without another
\* handler's step in between
Next ==
  \/ \E a \in LoanAmounts, r \in InterestRates, t \in LoanTerms, d \in StartDates :
       CreateLoan(a, r, t, d) /\ UNCHANGED inflight
  \/ \E id \in 1..MaxLoans, st \in LoanStatuses : UpdateLoan(id, st) /\ UNCHANGED inflight
  \/ \E id \in 1..(MaxLoans + 1), m \in PaymentMethods, ref \in References, n \in NotesChoices :
       \E a \in AmountInputs(id) : ProcessPayment(id, a, m, ref, n) /\ UNCHANGED inflight
  \/ \E id \in DOMAIN payments, st \in UpdateStatuses :
       UpdatePayment(id, st) /\ UNCHANGED inflight
  \/ \E id \in 1..(MaxLoans + 1), pid \in DOMAIN payments :
       BlockchainProcessPayment(id, pid) /\ UNCHANGED inflight

Spec == Init /\ [][Next]_vars

TypeOK ==
  /\ Len(loans) <= MaxLoans
  /\ \A i \in DOMAIN loans : loans[i].status \in LoanStatuses
  /\ \A i \in DOMAIN payments : payments[i].status \in PaymentStatuses
  /\ patches \in 0..MaxPatches

(***************************************************************************)
(* POST /payments step by step.  The handler awaits each database call, so *)
(* the calls of concurrent requests interleave and any call may throw;     *)
(* one action is one awaited call with the synchronous code that follows   *)
(* it.  The state starts with StepLoans approved loans, as left by         *)
(* POST /loans and PATCH /loans/:id.                                       *)
(***************************************************************************)
Requests == 1..MaxRequests

\* the program points at which the handler awaits a database call
AwaitingPoints ==
  {"findNext", "markPaid", "audit", "prepay", "loadAll", "complete", "balloon",
   "cancel", "payoffLoan", "reamortize", "updateMonthly"}

\* the rows of an approved loan as POST /loans created them
NewLoan(loanAmount, interestRate, loanTerm) ==
  [loanAmount |-> loanAmount, interestRate |-> interestRate, loanTerm |-> loanTerm,
   monthlyPayment |-> Annuity(loanAmount, interestRate, loanTerm), status |-> "approved"]

RECURSIVE SchedulesOf(_, _)
SchedulesOf(loanRows, n) ==
  IF n = 0 THEN <<>>
  ELSE SchedulesOf(loanRows, n - 1) \o
       GenerateSchedule(n, loanRows[n].loanAmount, loanRows[n].interestRate,
                        loanRows[n].loanTerm, loanRows[n].monthlyPayment,
                        CHOOSE d \in StartDates : TRUE)

\* the amounts a request is tried with: the amount due that is next on the
\* loan, with and without excess, and an amount that is too small
StepAmounts(loanId) ==
  {MinPaymentAmount}
  \cup {payments[i].amount + e : i \in NextPaymentCandidates(payments, loanId),
                                e \in {0} \cup ExtraChoices}

\* res.status(...).json(...): the request ends
Respond(q, code) ==
  inflight' = [inflight EXCEPT ![q].pc = "done", ![q].code = code]

\* validation, prisma.loan.findUnique and the status check
FindLoan(q, loanId, amount) ==
  /\ inflight[q].pc = "idle"
  /\ IF amount < MinPaymentAmount THEN Respond(q, "VALIDATION_ERROR")
     ELSE IF loanId \notin DOMAIN loans THEN Respond(q, "LOAN_NOT_FOUND")
     ELSE IF ~AcceptsPayments(loans[loanId].status) THEN Respond(q, "INVALID_LOAN_STATUS")
     ELSE inflight' = [inflight EXCEPT ![q].pc = "findNext", ![q].loanId = loanId,
                                       ![q].amount = amount]
  /\ UNCHANGED <<loans, payments, auditLog, response, locals, patches>>

\* prisma.payment.findFirst and the amount check
FindNextPayment(q) ==
  /\ inflight[q].pc = "findNext"
  /\ IF NextPaymentCandidates(payments, inflight[q].loanId) = {}
     THEN Respond(q, "NO_SCHEDULED_PAYMENTS")
     ELSE \E nextPayment \in NextPaymentCandidates(payments, inflight[q].loanId) :
            IF Insufficient(inflight[q].amount, payments[nextPayment].amount)
            THEN Respond(q, "INSUFFICIENT_PAYMENT")
            ELSE inflight' = [inflight EXCEPT ![q].pc = "markPaid",
                                              ![q].nextPayment = nextPayment,
                                              ![q].nextAmountDue = payments[nextPayment].amount]
  /\ UNCHANGED <<loans, payments, auditLog, response, locals, patches>>

\* 1) prisma.payment.update({ where: { id: nextPayment.id }, data: { status: 'paid', ... } })
MarkNextPaid(q) ==
  /\ inflight[q].pc = "markPaid"
  /\ payments' = [payments EXCEPT ![inflight[q].nextPayment] =
                    MarkPaid(@, CHOOSE m \in PaymentMethods : TRUE, Null, Null)]
  /\ inflight' = [inflight EXCEPT ![q].pc = "audit",
                                  ![q].paidDueDate = payments[inflight[q].nextPayment].dueDate]
  /\ UNCHANGED <<loans, auditLog, response, locals, patches>>

\* prisma.auditLog.create, then extraPrincipal = amount - nextAmountDue
WriteAudit(q) ==
  LET r == inflight[q]
      extraPrincipal == r.amount - r.nextAmountDue
  IN /\ r.pc = "audit"
     /\ auditLog' = Append(auditLog,
           AuditEntry(r.nextPayment, r.amount, CHOOSE m \in PaymentMethods : TRUE, Null,
                      Max(0, extraPrincipal)))
     /\ IF extraPrincipal > 0
        THEN inflight' = [inflight EXCEPT ![q].pc = "prepay"]
        ELSE Respond(q, "OK")
     /\ UNCHANGED <<loans, payments, response, locals, patches>>

\* prisma.payment.create of the principal reduction
CreatePrepayment(q) ==
  LET r == inflight[q]
  IN /\ r.pc = "prepay"
     /\ payments' = Append(payments,
           PrepaymentRow(r.loanId, r.amount - r.nextAmountDue, r.paidDueDate,
                         CHOOSE m \in PaymentMethods : TRUE, Null, Null))
     /\ inflight' = [inflight EXCEPT ![q].pc = "loadAll"]
     /\ UNCHANGED <<loans, auditLog, response, locals, patches>>

\* prisma.payment.findMany({ where: { loanId } }) and what the handler
\* derives from the rows it read
LoadAllPayments(q) ==
  LET r == inflight[q]
      loan == loans[r.loanId]
      remainingBalance ==
        RemainingBalance(loan.loanAmount, PrincipalPaid(payments, r.loanId),
                         r.amount - r.nextAmountDue)
      scheduledRemaining == ScheduledRemaining(payments, r.loanId, r.paidDueDate)
      remainingTerm == Len(scheduledRemaining)
      paidOff == remainingBalance <= PayoffEpsilon
  IN /\ r.pc = "loadAll"
     /\ inflight' = [inflight EXCEPT
          ![q].pc = IF remainingTerm = 0
                    THEN IF paidOff THEN "complete" ELSE "balloon"
                    ELSE IF paidOff THEN "cancel" ELSE "reamortize",
          ![q].remainingBalance = remainingBalance,
          ![q].scheduledRemaining = scheduledRemaining,
          ![q].newMonthly = IF remainingTerm = 0 \/ paidOff THEN 0
                            ELSE NewMonthly(remainingBalance, loan.interestRate, remainingTerm),
          ![q].i = 1,
          ![q].balanceCursor = remainingBalance]
     /\ UNCHANGED <<loans, payments, auditLog, response, locals, patches>>

\* prisma.loan.update({ data: { status: 'completed' } })
CompleteLoan(q) ==
  /\ inflight[q].pc = "complete"
  /\ loans' = [loans EXCEPT ![inflight[q].loanId].status = "completed"]
  /\ Respond(q, "OK")
  /\ UNCHANGED <<payments, auditLog, response, locals, patches>>

\* prisma.payment.create of the single final payment
CreateBalloon(q) ==
  /\ inflight[q].pc = "balloon"
  /\ payments' = Append(payments,
        BalloonRow(inflight[q].loanId, inflight[q].remainingBalance, inflight[q].paidDueDate))
  /\ Respond(q, "OK")
  /\ UNCHANGED <<loans, auditLog, response, locals, patches>>

\* prisma.payment.updateMany({ data: { status: 'cancelled' } })
CancelRemaining(q) ==
  /\ inflight[q].pc = "cancel"
  /\ payments' = CancelAll(payments, inflight[q].scheduledRemaining)
  /\ inflight' = [inflight EXCEPT ![q].pc = "payoffLoan"]
  /\ UNCHANGED <<loans, auditLog, response, locals, patches>>

\* prisma.loan.update({ data: { status: 'completed', monthlyPayment: 0 } })
PayoffLoan(q) ==
  /\ inflight[q].pc = "payoffLoan"
  /\ loans' = [loans EXCEPT ![inflight[q].loanId].status = "completed",
                            ![inflight[q].loanId].monthlyPayment = 0]
  /\ Respond(q, "OK")
  /\ UNCHANGED <<payments, auditLog, response, locals, patches>>

\* one iteration of the re-amortization loop: prisma.payment.update of
\* scheduledRemaining[i]
ReamortizeRow(q) ==
  LET r == inflight[q]
      interestRate == loans[r.loanId].interestRate
      last == (r.i = Len(r.scheduledRemaining))
      interestPortion == IF interestRate = 0 THEN 0 ELSE TimesRate(r.balanceCursor, interestRate)
      principalPortion == IF last THEN Max(0, r.balanceCursor)
                          ELSE r.newMonthly - interestPortion
      amountThis == IF last THEN principalPortion + interestPortion ELSE r.newMonthly
      id == r.scheduledRemaining[r.i]
  IN /\ r.pc = "reamortize"
     /\ payments' = [payments EXCEPT ![id].amount = amountThis,
                                     ![id].principal = principalPortion,
                                     ![id].interest = interestPortion]
     /\ inflight' = [inflight EXCEPT
          ![q].pc = IF last THEN "updateMonthly" ELSE "reamortize",
          ![q].i = r.i + 1,
          ![q].balanceCursor = Max(0, r.balanceCursor - principalPortion)]
     /\ UNCHANGED <<loans, auditLog, response, locals, patches>>

\* prisma.loan.update({ data: { monthlyPayment: newMonthly } })
UpdateMonthly(q) ==
  /\ inflight[q].pc = "updateMonthly"
  /\ loans' = [loans EXCEPT ![inflight[q].loanId].monthlyPayment = inflight[q].newMonthly]
  /\ Respond(q, "OK")
  /\ UNCHANGED <<payments, auditLog, response, locals, patches>>

\* the awaited call throws: catch (error) answers 500 INTERNAL_ERROR
CallFails(q) ==
  /\ inflight[q].pc \in AwaitingPoints
  /\ Respond(q, "INTERNAL_ERROR")
  /\ UNCHANGED <<loans, payments, auditLog, response, locals, patches>>

StepInit ==
  /\ \E terms \in [1..StepLoans -> LoanTerms] :
       /\ loans = [n \in 1..StepLoans |->
                     NewLoan(CHOOSE a \in LoanAmounts : TRUE,
                             CHOOSE r \in InterestRates : TRUE, terms[n])]
       /\ payments = SchedulesOf(loans, StepLoans)
  /\ auditLog = <<>>
  /\ response = Reply("none", 0, "OK", 0, 0, 0)
  /\ locals = NoLocals
  /\ patches = 0
  /\ inflight = [q \in Requests |-> IdleRequest]

StepNext ==
  \/ \E q \in Requests, loanId \in 1..(StepLoans + 1) :
       \E amount \in StepAmounts(loanId) : FindLoan(q, loanId, amount)
  \/ \E q \in Requests : FindNextPayment(q)
  \/ \E q \in Requests : MarkNextPaid(q)
  \/ \E q \in Requests : WriteAudit(q)
  \/ \E q \in Requests : CreatePrepayment(q)
  \/ \E q \in Requests : LoadAllPayments(q)
  \/ \E q \in Requests : CompleteLoan(q)
  \/ \E q \in Requests : CreateBalloon(q)
  \/ \E q \in Requests : CancelRemaining(q)
  \/ \E q \in Requests : PayoffLoan(q)
  \/ \E q \in Requests : ReamortizeRow(q)
  \/ \E q \in Requests : UpdateMonthly(q)
  \/ \E q \in Requests : CallFails(q)

StepSpec == StepInit /\ [][StepNext]_vars

(***************************************************************************)
(* POST /loans alone, over a wider range of requests: amounts, rates       *)
(* (0 included, which the schema refuses), terms and creation dates,       *)
(* month ends included.                                                    *)
(***************************************************************************)
GenAmounts == {MinLoanAmount, 1500 * Micro}
GenRates == {0, 12, 24, 30}
GenDates == {<<0, 15>>, <<0, 31>>, <<1, 28>>, <<2, 31>>, <<7, 31>>, <<11, 31>>}

GenNext ==
  \E a \in GenAmounts, r \in GenRates, t \in LoanTerms, d \in GenDates :
    CreateLoan(a, r, t, d) /\ UNCHANGED inflight

GenSpec == Init /\ [][GenNext]_vars

(***************************************************************************)
(* Vocabulary of the properties.                                           *)
(***************************************************************************)
Abs(x) == IF x < 0 THEN 0 - x ELSE x

\* loan.principal minus the principalPortion of the loan's Paid installments
OutstandingBalance(loanRows, rows, loanId) ==
  loanRows[loanId].loanAmount - PrincipalPaid(rows, loanId)

\* this step is a POST /payments request on loanId with this amount
PaymentRequest(loanId, amount) ==
  \E m \in PaymentMethods, ref \in References, n \in NotesChoices :
    ProcessPayment(loanId, amount, m, ref, n)

\* this step ends with the answer of a POST /payments request
IsPaymentResponse == response'.op = "processPayment"

\* this step is a POST /payments request that was accepted
PaymentApplied ==
  /\ response'.op = "processPayment"
  /\ response'.code = "OK"
  /\ Len(auditLog') = Len(auditLog) + 1

\* the loan and the matched installment of the payment this step applies
AppliedLoan == response'.loanId
AppliedPayment == response'.paymentId

Rejections == {"INVALID_LOAN_STATUS", "NO_SCHEDULED_PAYMENTS", "INSUFFICIENT_PAYMENT"}

(***************************************************************************)
(* C1.  On every accepted payment with excess, the balance the handler     *)
(* derives and acts on (payoff check, balloon, re-amortization) equals     *)
(* loanAmount minus the principal of all Paid rows of the loan, the        *)
(* just-paid row and the prepayment row included, within 0.01.             *)
(***************************************************************************)
C1_EngineBalanceIsOutstanding ==
  [][(PaymentApplied /\ locals'.branch # "none")
       => Abs(locals'.remainingBalance
              - OutstandingBalance(loans', payments', AppliedLoan)) <= PayoffEpsilon]_vars

(***************************************************************************)
(* C2.  Payment processing sets a loan to completed only when loanAmount   *)
(* minus the principal of its Paid rows is at most 0.01.                   *)
(***************************************************************************)
C2_CompletedOnlyWhenPaidOff ==
  [][(PaymentApplied /\ loans'[AppliedLoan].status = "completed")
       => OutstandingBalance(loans', payments', AppliedLoan) <= PayoffEpsilon]_vars

(***************************************************************************)
(* C3.  An accepted payment that leaves the loan with no scheduled row and *)
(* an outstanding balance of at most 0.01 sets the loan to completed.      *)
(***************************************************************************)
C3_CompletedWhenNothingLeft ==
  [][(/\ PaymentApplied
      /\ ScheduledOf(payments', AppliedLoan) = {}
      /\ OutstandingBalance(loans', payments', AppliedLoan) <= PayoffEpsilon)
       => loans'[AppliedLoan].status = "completed"]_vars

(***************************************************************************)
(* C4.  An accepted payment whose excess is positive and at least the      *)
(* balance left after the matched installment, on a loan with further      *)
(* scheduled rows, cancels every one of them, sets monthlyPayment to 0 and *)
(* the loan to completed, and leaves the loan without a scheduled row.     *)
(***************************************************************************)
C4_PayoffCancelsSchedule ==
  [][(/\ PaymentApplied
      /\ locals'.extraPrincipal > 0
      /\ locals'.extraPrincipal >=
           OutstandingBalance(loans, payments, AppliedLoan) - payments[AppliedPayment].principal
      /\ ScheduledOf(payments, AppliedLoan) \ {AppliedPayment} # {})
       => /\ \A j \in ScheduledOf(payments, AppliedLoan) \ {AppliedPayment} :
               payments'[j].status = "cancelled"
          /\ loans'[AppliedLoan].monthlyPayment = 0
          /\ loans'[AppliedLoan].status = "completed"
          /\ ScheduledOf(payments', AppliedLoan) = {}]_vars

(***************************************************************************)
(* C5.  An accepted payment turns exactly one existing row to paid, and    *)
(* that row was a scheduled row of the loan with no scheduled row of the   *)
(* loan due earlier.                                                       *)
(***************************************************************************)
BecamePaid == {j \in DOMAIN payments : payments[j].status # "paid" /\ payments'[j].status = "paid"}

C6_PreconditionOrder ==
  [][\A l \in DOMAIN loans : \A a \in AmountInputs(l) :
       (a >= MinPaymentAmount /\ IsPaymentResponse /\ PaymentRequest(l, a))
         => /\ loans[l].status \notin {"approved", "active"}
                 => response'.code = "INVALID_LOAN_STATUS"
            /\ (loans[l].status \in {"approved", "active"} /\ ScheduledOf(payments, l) = {})
                 => response'.code = "NO_SCHEDULED_PAYMENTS"]_vars

\* INVALID_LOAN_STATUS was answered for a loan that has no scheduled row either
C6_Witness ==
  /\ response.op = "processPayment"
  /\ response.code = "INVALID_LOAN_STATUS"
  /\ ScheduledOf(payments, response.loanId) = {}
  /\ PaymentsOf(payments, response.loanId) # {}

(***************************************************************************)
(* C7.  A request answered INVALID_LOAN_STATUS, NO_SCHEDULED_PAYMENTS or   *)
(* INSUFFICIENT_PAYMENT changes no loan and no payment row, creates no row *)
(* and writes no audit entry.                                              *)
(***************************************************************************)
C7_RejectionChangesNothing ==
  [][(response'.op = "processPayment" /\ response'.code \in Rejections)
       => (loans' = loans /\ payments' = payments /\ auditLog' = auditLog)]_vars

\* a request was rejected on a loan that already has paid rows and audit entries
C7_Witness ==
  /\ response.op = "processPayment"
  /\ response.code \in Rejections
  /\ auditLog # <<>>
  /\ \E i \in PaymentsOf(payments, response.loanId) : payments[i].status = "paid"

C9_CompletedStaysClosed ==
  [][/\ \A l \in DOMAIN loans : \A a \in AmountInputs(l) :
          (/\ a >= MinPaymentAmount
           /\ loans[l].status \notin {"approved", "active"}
           /\ IsPaymentResponse
           /\ PaymentRequest(l, a))
            => response'.code = "INVALID_LOAN_STATUS"
     /\ PaymentApplied
          => ~(locals.loanId = AppliedLoan /\ locals.branch \in {"complete", "payoff"})]_vars

(***************************************************************************)
(* C10.  In every reachable state every payment row has                    *)
(* amount = principal + interest + fees.                                   *)
(***************************************************************************)
C10_AmountIsSumOfPortions ==
  \A i \in DOMAIN payments :
    payments[i].amount = payments[i].principal + payments[i].interest + payments[i].fees

\* a balloon row was appended on a loan that holds a prepayment row and
\* rows rewritten by a re-amortization
C10_Witness ==
  /\ locals.branch = "balloon"
  /\ \E i \in DOMAIN payments :
       payments[i].reference = "PRINCIPAL_PREPAYMENT" /\ payments[i].interest = 0
  /\ \E i \in DOMAIN payments :
       /\ payments[i].loanId = locals.loanId
       /\ payments[i].reference = Null
       /\ payments[i].amount # loans[locals.loanId].monthlyPayment
       /\ payments[i].interest > 0

(***************************************************************************)
(* C11.  No step takes a payment row from paid to scheduled or from        *)
(* cancelled to scheduled.                                                 *)
(***************************************************************************)
C11_NoReturnToScheduled ==
  [][\A i \in DOMAIN payments :
       payments[i].status \in {"paid", "cancelled"} => payments'[i].status # "scheduled"]_vars

(***************************************************************************)
(* C12.  A request that ends with INTERNAL_ERROR, no other request having  *)
(* been received, leaves every loan and every payment row as they were     *)
(* before it: the schedules as generated, the loans approved with their    *)
(* annuity payment.                                                        *)
(***************************************************************************)
C12_FailedPaymentChangesNothing ==
  \A q \in Requests :
    (/\ inflight[q].pc = "done"
     /\ inflight[q].code = "INTERNAL_ERROR"
     /\ \A o \in Requests \ {q} : inflight[o].pc = "idle")
      => /\ payments = SchedulesOf(loans, StepLoans)
         /\ \A n \in DOMAIN loans :
              loans[n] = NewLoan(loans[n].loanAmount, loans[n].interestRate, loans[n].loanTerm)

(***************************************************************************)
(* C13.  Two accepted payments on one loan have marked different rows      *)
(* paid.                                                                   *)
(***************************************************************************)
C13_AcceptedPaymentsPayDistinctRows ==
  \A q1, q2 \in Requests :
    (/\ q1 # q2
     /\ inflight[q1].code = "OK"
     /\ inflight[q2].code = "OK"
     /\ inflight[q1].loanId = inflight[q2].loanId)
      => inflight[q1].nextPayment # inflight[q2].nextPayment

(***************************************************************************)
(* C17.  A step of a payment request on one loan leaves every other loan   *)
(* and every row of every other loan as they are, and creates no row for   *)
(* another loan, whatever other requests are in flight.                    *)
(***************************************************************************)
C17_OtherLoansUntouched ==
  [][\A q \in Requests :
       inflight'[q] # inflight[q]
         => \A b \in DOMAIN loans \ {inflight'[q].loanId} :
              /\ loans'[b] = loans[b]
              /\ \A i \in DOMAIN payments' :
                   payments'[i].loanId = b
                     => (i \in DOMAIN payments /\ payments'[i] = payments[i])]_vars

\* a payment has re-amortized loan 1 while a payment on loan 2 is between
\* the writes of its own re-amortization
C17_Witness ==
  \E q1, q2 \in Requests :
    /\ inflight[q1].loanId = 1 /\ inflight[q1].code = "OK"
    /\ loans[1].monthlyPayment = inflight[q1].newMonthly
    /\ inflight[q1].newMonthly > 0
    /\ inflight[q2].loanId = 2 /\ inflight[q2].pc = "reamortize" /\ inflight[q2].i = 2

(***************************************************************************)
(* C14.  A POST /payments request answered 200 appends exactly one audit   *)
(* record, PAYMENT_PROCESSED, with the request's amount, payment method    *)
(* and reference, whose extraPrincipalApplied is the principal of the      *)
(* prepayment row the request created, or 0 when it created none.          *)
(***************************************************************************)
CreatedPrepayments ==
  {i \in DOMAIN payments' \ DOMAIN payments : payments'[i].status = "paid"}

C14_OneAuditEventPerPayment ==
  [][\A m \in PaymentMethods, ref \in References, n \in NotesChoices :
       (/\ response'.op = "processPayment"
        /\ response'.code = "OK"
        /\ ProcessPayment(response'.loanId, locals'.amount, m, ref, n))
         => /\ Len(auditLog') = Len(auditLog) + 1
            /\ SubSeq(auditLog', 1, Len(auditLog)) = auditLog
            /\ LET event == auditLog'[Len(auditLog')]
               IN /\ event.action = "PAYMENT_PROCESSED"
                  /\ event.resourceId = response'.paymentId
                  /\ event.amount = locals'.amount
                  /\ event.paymentMethod = m
                  /\ event.reference = ref
                  /\ Cardinality(CreatedPrepayments) <= 1
                  /\ IF CreatedPrepayments = {} THEN event.extraPrincipalApplied = 0
                     ELSE \A i \in CreatedPrepayments :
                            event.extraPrincipalApplied = payments'[i].principal]_vars

\* the log holds the record of a payment with excess, whose prepayment row
\* exists, and the record of a payment without
C14_Witness ==
  /\ \E k \in DOMAIN auditLog :
       /\ auditLog[k].extraPrincipalApplied > 0
       /\ \E i \in DOMAIN payments :
            /\ payments[i].reference = "PRINCIPAL_PREPAYMENT"
            /\ payments[i].principal = auditLog[k].extraPrincipalApplied
  /\ \E k \in DOMAIN auditLog :
       auditLog[k].extraPrincipalApplied = 0 /\ auditLog[k].amount > 0

(***************************************************************************)
(* C15.  A POST /loans request with term T that passes validation leaves   *)
(* the loan pending with its annuity payment as monthlyPayment (T payments *)
(* of it at the monthly rate bring the balance to 0 within 0.01) and       *)
(* exactly T rows, all scheduled, each of amount monthlyPayment, with      *)
(* strictly increasing due dates, the first 28 to 31 days after creation.  *)
(***************************************************************************)
\* the balance left of b after n payments of m, interest added monthly
RECURSIVE BalanceAfter(_, _, _, _)
BalanceAfter(b, interestRate, m, n) ==
  IF n = 0 THEN b
  ELSE BalanceAfter(b + TimesRate(b, interestRate) - m, interestRate, m, n - 1)

C15_CreationGeneratesSchedule ==
  [][\A a \in GenAmounts, r \in GenRates, t \in LoanTerms, d \in GenDates :
       (CreateLoan(a, r, t, d) /\ response'.code = "OK")
         => LET id == response'.loanId
                rows == payments'
            IN /\ loans'[id].status = "pending"
               /\ loans'[id].loanTerm = t
               /\ Abs(BalanceAfter(a, r, loans'[id].monthlyPayment, t)) <= PayoffEpsilon
               /\ Cardinality(PaymentsOf(rows, id)) = t
               /\ \A i \in PaymentsOf(rows, id) :
                    /\ rows[i].status = "scheduled"
                    /\ rows[i].amount = loans'[id].monthlyPayment
               /\ \A i, j \in PaymentsOf(rows, id) :
                    i < j => rows[i].dueDate < rows[j].dueDate
               /\ \A i \in PaymentsOf(rows, id) :
                    (\A j \in PaymentsOf(rows, id) : rows[i].dueDate <= rows[j].dueDate)
                      => (rows[i].dueDate - DayNumber(d[1], d[2])) \in 28..31]_vars

\* a loan of the longest term was created on 31 January: its first row is
\* due on 3 March
C15_Witness ==
  /\ response.op = "createLoan"
  /\ response.code = "OK"
  /\ loans[1].loanTerm = MaxTerm
  /\ Len(payments) = MaxTerm
  /\ payments[1].dueDate = DayNumber(2, 3)

(***************************************************************************)
(* C16.  A POST /loans request with rate 0 and term T creates T rows with  *)
(* interest 0 whose principals sum to the loan amount.                     *)
(***************************************************************************)
C16_ZeroRateSchedule ==
  [][\A a \in GenAmounts, t \in LoanTerms, d \in GenDates :
       CreateLoan(a, 0, t, d)
         => /\ response'.code = "OK"
            /\ Len(payments') = Len(payments) + t
            /\ \A i \in DOMAIN payments' \ DOMAIN payments : payments'[i].interest = 0
            /\ SumPrincipal(payments', DOMAIN payments' \ DOMAIN payments) = a]_vars

(***************************************************************************)
(* C18.  In a generated schedule, the interest of each row is the monthly  *)
(* rate times the loan amount less the principal of the rows before it,    *)
(* and the principals of the rows sum to the loan amount, each within      *)
(* 0.01.                                                                   *)
(***************************************************************************)
C18_ScheduleAmortizesPrincipal ==
  [][\A a \in GenAmounts, r \in GenRates, t \in LoanTerms, d \in GenDates :
       (CreateLoan(a, r, t, d) /\ response'.code = "OK")
         => LET id == response'.loanId
                rows == payments'
                before(i) == {j \in PaymentsOf(rows, id) : rows[j].dueDate < rows[i].dueDate}
            IN /\ \A i \in PaymentsOf(rows, id) :
                    Abs(rows[i].interest
                        - TimesRate(a - SumPrincipal(rows, before(i)), r)) <= PayoffEpsilon
               /\ Abs(SumPrincipal(rows, PaymentsOf(rows, id)) - a) <= PayoffEpsilon]_vars

(***************************************************************************)
(* C19.  After an accepted payment that re-amortizes, the principals of    *)
(* the loan's scheduled rows sum to loanAmount minus the principal of its  *)
(* paid rows, within 0.01.                                                 *)
(***************************************************************************)
C19_ReamortizedPrincipalIsOutstanding ==
  [][(PaymentApplied /\ locals'.branch = "reamortize")
       => Abs(SumPrincipal(payments', ScheduledOf(payments', AppliedLoan))
              - OutstandingBalance(loans', payments', AppliedLoan)) <= PayoffEpsilon]_vars

(***************************************************************************)
(* C20.  An accepted payment that re-amortizes sets the loan's             *)
(* monthlyPayment, and the amount of every re-amortized row but the last,  *)
(* strictly below the loan's monthlyPayment before the payment.            *)
(***************************************************************************)
\* the rows the payment of this step re-amortized, the last one left out
ReamortizedNonLast ==
  LET remaining == {i \in ScheduledOf(payments', AppliedLoan) :
                      payments'[i].dueDate > payments'[AppliedPayment].dueDate}
  IN {i \in remaining : \E j \in remaining : payments'[j].dueDate > payments'[i].dueDate}

C20_ReamortizationLowersPayment ==
  [][(PaymentApplied /\ locals'.branch = "reamortize")
       => /\ loans'[AppliedLoan].monthlyPayment < loans[AppliedLoan].monthlyPayment
          /\ \A i \in ReamortizedNonLast :
               payments'[i].amount < loans[AppliedLoan].monthlyPayment]_vars

(***************************************************************************)
(* C21.  An accepted payment that re-amortizes leaves the loan's other     *)
(* scheduled rows scheduled, with their due dates, and adds no scheduled   *)
(* row; it sets the loan's monthlyPayment and the amount of every          *)
(* re-amortized row but the last to the annuity payment over loanAmount    *)
(* minus the principal of the paid rows, at the loan's rate, over the      *)
(* number of remaining rows (within 0.01).                                 *)
(***************************************************************************)
C21_ReamortizationPreservesTerm ==
  [][(PaymentApplied /\ locals'.branch = "reamortize")
       => LET remaining == ScheduledOf(payments, AppliedLoan) \ {AppliedPayment}
              newPayment == NewMonthly(OutstandingBalance(loans', payments', AppliedLoan),
                                       loans[AppliedLoan].interestRate, Cardinality(remaining))
          IN /\ ScheduledOf(payments', AppliedLoan) = remaining
             /\ \A i \in remaining : payments'[i].dueDate = payments[i].dueDate
             /\ Abs(loans'[AppliedLoan].monthlyPayment - newPayment) <= PayoffEpsilon
             /\ \A i \in ReamortizedNonLast :
                  payments'[i].amount = loans'[AppliedLoan].monthlyPayment]_vars

C23_LastRowPayoffOrBalloon ==
  [][(/\ PaymentApplied
      /\ locals'.amount > payments[AppliedPayment].amount
      /\ ScheduledOf(payments, AppliedLoan) = {AppliedPayment})
       => LET outstanding == OutstandingBalance(loans', payments', AppliedLoan)
              balloons == {i \in DOMAIN payments' \ DOMAIN payments :
                             payments'[i].status = "scheduled"}
          IN IF outstanding <= PayoffEpsilon
             THEN /\ loans'[AppliedLoan].status = "completed"
                  /\ balloons = {}
             ELSE /\ Cardinality(balloons) = 1
                  /\ \A i \in balloons :
                       /\ payments'[i].loanId = AppliedLoan
                       /\ payments'[i].dueDate
                            = payments[AppliedPayment].dueDate + BalloonDays
                       /\ payments'[i].principal = outstanding
                       /\ payments'[i].amount = outstanding
                       /\ payments'[i].interest = 0
                  /\ loans'[AppliedLoan].status = loans[AppliedLoan].status]_vars

(***************************************************************************)
(* C24.  An accepted payment without excess changes only the matched row,  *)
(* and of that row only status, paid date, method, reference and notes:    *)
(* every loan keeps all its fields (monthlyPayment, loanAmount,            *)
(* interestRate, loanTerm, status), no row is added, and every other row   *)
(* is unchanged.                                                           *)
(***************************************************************************)
C24_ExactPaymentFrame ==
  [][(PaymentApplied /\ locals'.amount <= payments[AppliedPayment].amount)
       => /\ loans' = loans
          /\ DOMAIN payments' = DOMAIN payments
          /\ \A i \in DOMAIN payments \ {AppliedPayment} : payments'[i] = payments[i]
          /\ payments'[AppliedPayment].status = "paid"
          /\ payments'[AppliedPayment].loanId = payments[AppliedPayment].loanId
          /\ payments'[AppliedPayment].amount = payments[AppliedPayment].amount
          /\ payments'[AppliedPayment].principal = payments[AppliedPayment].principal
          /\ payments'[AppliedPayment].interest = payments[AppliedPayment].interest
          /\ payments'[AppliedPayment].fees = payments[AppliedPayment].fees
          /\ payments'[AppliedPayment].dueDate = payments[AppliedPayment].dueDate]_vars

\* the last payment carried exactly the amount due and left a scheduled row
C24_Witness ==
  /\ response.op = "processPayment"
  /\ response.code = "OK"
  /\ locals.amount = payments[response.paymentId].amount
  /\ payments[response.paymentId].status = "paid"
  /\ payments[response.paymentId].interest > 0
  /\ ScheduledOf(payments, response.loanId) # {}
  /\ loans[response.loanId].monthlyPayment = payments[response.paymentId].amount

(***************************************************************************)
(* C25.  In every reachable state no scheduled row of a loan is due        *)
(* earlier than a paid row of the same loan: rows are only ever marked     *)
(* paid in due-date order, never by a row id the caller names.             *)
(***************************************************************************)
C25_PaidInDueDateOrder ==
  \A i, j \in DOMAIN payments :
    (/\ payments[i].loanId = payments[j].loanId
     /\ payments[i].status = "scheduled"
     /\ payments[j].status = "paid")
      => payments[j].dueDate <= payments[i].dueDate

(***************************************************************************)
(* C26.  A loan's status changes only along pending -> approved -> active  *)
(* -> completed or defaulted, and pending -> cancelled; a payment may      *)
(* complete a loan from either status in which it accepts payments.        *)
(* Nothing leaves completed, defaulted or cancelled.                       *)
(***************************************************************************)
C26_LoanLifecycle ==
  [][\A l \in DOMAIN loans :
       loans'[l].status # loans[l].status
         => <<loans[l].status, loans'[l].status>>
              \in {<<"pending", "approved">>, <<"approved", "active">>,
                   <<"active", "completed">>, <<"active", "defaulted">>,
                   <<"pending", "cancelled">>, <<"approved", "completed">>}]_vars

(***************************************************************************)
(* C27.  The response to a payment rejected as insufficient carries the    *)
(* amount due of the matched row and the shortfall.                        *)
(***************************************************************************)
C27_InsufficientReportsShortfall ==
  (response.op = "processPayment" /\ response.code = "INSUFFICIENT_PAYMENT")
    => /\ \E i \in NextPaymentCandidates(payments, response.loanId) :
            response.amountDue = payments[i].amount
       /\ "shortfall" \in DOMAIN response

(***************************************************************************)
(* C28.  After every accepted payment, whatever its amount, the principal  *)
(* of the loan's paid rows exceeds the loan amount by at most 0.01: the    *)
(* outstanding balance is not negative.                                    *)
(***************************************************************************)
C28_BalanceNeverNegative ==
  [][PaymentApplied
       => OutstandingBalance(loans', payments', AppliedLoan) >= 0 - PayoffEpsilon]_vars

(***************************************************************************)
(* C29.  No step of payment processing changes the amount, principal,      *)
(* interest or status of a row that is paid or cancelled when the step     *)
(* runs, also when the steps of two requests interleave.                   *)
(***************************************************************************)
C29_SettledRowsNotRewritten ==
  [][\A i \in DOMAIN payments :
       payments[i].status \in {"paid", "cancelled"}
         => /\ payments'[i].amount = payments[i].amount
            /\ payments'[i].principal = payments[i].principal
            /\ payments'[i].interest = payments[i].interest
            /\ payments'[i].status = payments[i].status]_vars

====
